---- MODULE Spec2Model ----
(***************************************************************************)
(* Plantopia: the DEM-to-heightmap pipeline (backend/app.py and the        *)
(* StreamingAssets scripts) and the HTTP backend's transient file store.   *)
(*                                                                         *)
(* Six specifications share the module:                                    *)
(*   Spec       - the HTTP handlers of backend/app.py over the temp store, *)
(*                one atomic action per request;                           *)
(*   SpecConc   - the same handlers statement by statement, two requests   *)
(*                at a time;                                               *)
(*   SpecPipe   - the pipeline functions applied to every small raster;    *)
(*   SpecResize - the Resampler applied to every small grid;               *)
(*   SpecQuant  - the quantizers applied to every sample n/SampleDen;      *)
(*   SpecHook   - the n8n client of backend/n8n_client.py.                 *)
(*                                                                         *)
(* Samples are exact rationals [n, d] in lowest terms; d = 0 is NaN.       *)
(***************************************************************************)
EXTENDS Integers, Sequences, FiniteSets, TLC

VARIABLES
    store,       \* temp/: the files, each a name and a content
    issued,      \* file ids uuid4 has handed out so far
    cleaned,     \* history: file ids a cleanup request has completed for
    resp,        \* the last request and its response
    pc,          \* which specification runs and which function has been applied
    raster,      \* SpecPipe: the decoded source raster (grid, nodata)
    resolution,  \* SpecPipe: the requested resolution
    run,         \* SpecPipe: what the applied function produced
    sample,      \* SpecQuant: one normalized sample
    quant,       \* SpecQuant: the integer samples produced from it
    req,         \* SpecConc: per server thread, the request it is handling
    hook,        \* SpecHook: one call of the n8n client and its outcome
    resized,     \* SpecResize: a grid, a target size and the resampled grid
    OPENTOPO_API_KEY  \* the key read from the environment at import

vars == <<store, issued, cleaned, resp, pc, raster, resolution, run, sample, quant,
          req, hook, resized, OPENTOPO_API_KEY>>

httpVars == <<store, issued, cleaned, resp, OPENTOPO_API_KEY>>
pipeVars == <<raster, resolution, run>>
quantVars == <<sample, quant>>
concVars == <<req>>
hookVars == <<hook>>
resizeVars == <<resized>>

-----------------------------------------------------------------------------
(* Bounds                                                                  *)

\* raw elevations are drawn from 0..MaxVal
MaxVal == 2
\* normalized samples of SpecQuant are n/SampleDen, n in 0..SampleDen
SampleDen == 1000

-----------------------------------------------------------------------------
(* Exact arithmetic on samples                                             *)

RECURSIVE GCD(_, _)
GCD(a, b) == IF b = 0 THEN a ELSE GCD(b, a % b)

Abs(i) == IF i < 0 THEN -i ELSE i

NaN == [n |-> 0, d |-> 0]

IsNaN(x) == x.d = 0

\* n/d in lowest terms, d # 0
Rat(n, d) ==
    LET s == IF d < 0 THEN -1 ELSE 1
        g == GCD(Abs(n), Abs(d))
    IN  [n |-> (s * n) \div g, d |-> (s * d) \div g]

R(i) == [n |-> i, d |-> 1]

RAdd(a, b) == IF IsNaN(a) \/ IsNaN(b) THEN NaN ELSE Rat(a.n * b.d + b.n * a.d, a.d * b.d)
RSub(a, b) == IF IsNaN(a) \/ IsNaN(b) THEN NaN ELSE Rat(a.n * b.d - b.n * a.d, a.d * b.d)
RMul(a, b) == IF IsNaN(a) \/ IsNaN(b) THEN NaN ELSE Rat(a.n * b.n, a.d * b.d)
\* 0/0 is NaN; x/0 with x # 0 (an infinity) never arises in the modelled code
RDiv(a, b) == IF IsNaN(a) \/ IsNaN(b) \/ b.n = 0 THEN NaN ELSE Rat(a.n * b.d, a.d * b.n)

\* comparisons with NaN are false, as in IEEE 754
RLt(a, b) == ~IsNaN(a) /\ ~IsNaN(b) /\ a.n * b.d < b.n * a.d
RLe(a, b) == ~IsNaN(a) /\ ~IsNaN(b) /\ a.n * b.d <= b.n * a.d
REq(a, b) == ~IsNaN(a) /\ ~IsNaN(b) /\ a = b

\* truncation toward zero of a non-NaN sample
Trunc(a) == IF a.n >= 0 THEN a.n \div a.d ELSE -((-a.n) \div a.d)

\* round half to even of a non-negative sample
RoundNearest(a) ==
    LET f == a.n \div a.d
        twice == 2 * (a.n - f * a.d)
    IN  IF twice < a.d THEN f
        ELSE IF twice > a.d THEN f + 1
        ELSE IF f % 2 = 0 THEN f ELSE f + 1

-----------------------------------------------------------------------------
(* Grids: 2 rows x 3 columns, row-major, as read by src.read(1)            *)

Rows == {0, 1}
Cols == {0, 1, 2}
Cells == Rows \X Cols

RawVals == {R(i) : i \in 0..MaxVal} \cup {NaN}
Grids == [Cells -> RawVals]

NoGrid == [c \in Cells |-> NaN]

\* the raster declares no sentinel, or the sentinel 1
NoDataChoices == {{}, {R(1)}}

Finite(g) == \A c \in Cells : ~IsNaN(g[c])

KnownCells(g) == {c \in Cells : ~IsNaN(g[c])}

RECURSIVE SumOver(_, _)
SumOver(g, S) ==
    IF S = {} THEN R(0)
    ELSE LET c == CHOOSE x \in S : TRUE
         IN  RAdd(g[c], SumOver(g, S \ {c}))

\* np.nanmean of the known values
NanMean(g) == RDiv(SumOver(g, KnownCells(g)), R(Cardinality(KnownCells(g))))

\* np.nanmin / np.nanmax: NaN cells are skipped; NaN when there is none left
NanMin(g) ==
    IF KnownCells(g) = {} THEN NaN
    ELSE LET c == CHOOSE x \in KnownCells(g) : \A y \in KnownCells(g) : RLe(g[x], g[y])
         IN  g[c]
NanMax(g) ==
    IF KnownCells(g) = {} THEN NaN
    ELSE LET c == CHOOSE x \in KnownCells(g) : \A y \in KnownCells(g) : RLe(g[y], g[x])
         IN  g[c]

\* np.min / np.max: NaN as soon as one cell is NaN
NpMin(g) == IF Finite(g) THEN NanMin(g) ELSE NaN
NpMax(g) == IF Finite(g) THEN NanMax(g) ELSE NaN


-----------------------------------------------------------------------------
(* The Gap Filler of backend/app.py                                        *)

\* mutant: a default sentinel 0 is masked when the raster declares none
MaskNoData_DefaultSentinel(g, nodata) ==
    LET nd == IF nodata # {} THEN nodata ELSE {R(0)}
    IN  [c \in Cells |-> IF \E s \in nd : REq(g[c], s) THEN NaN ELSE g[c]]

\* np.where(elevation_data == src.nodata, np.nan, elevation_data), run only
\* when src.nodata is not None
MaskNoData(g, nodata) ==
    IF nodata # {}
    THEN [c \in Cells |-> IF \E s \in nodata : REq(g[c], s) THEN NaN ELSE g[c]]
    ELSE g

\* twice the signed area of the triangle a, b, c
Cross(a, b, c) == (b[1] - a[1]) * (c[2] - a[2]) - (b[2] - a[2]) * (c[1] - a[1])

\* Delaunay needs three points that are not collinear
HasSimplex(points) == \E a, b, c \in points : Cross(a, b, c) # 0

\* the nearest known cell of the same row on each side of c
LeftOf(c, points) == {p \in points : p[1] = c[1] /\ p[2] < c[2]}
RightOf(c, points) == {p \in points : p[1] = c[1] /\ p[2] > c[2]}
NearestLeft(c, points) ==
    CHOOSE p \in LeftOf(c, points) : \A q \in LeftOf(c, points) : q[2] <= p[2]
NearestRight(c, points) ==
    CHOOSE p \in RightOf(c, points) : \A q \in RightOf(c, points) : q[2] >= p[2]

\* On a grid of two rows the convex hull of the known points meets a row in
\* the segment between that row's outermost known points, and that segment
\* is made of edges of the triangulation: a missing cell is inside the hull
\* iff it has known cells on both sides in its row, and linear interpolation
\* on an edge uses the edge's two end points only.
InHull(c, points) == LeftOf(c, points) # {} /\ RightOf(c, points) # {}

LinearOnEdge(c, points, g) ==
    LET l == NearestLeft(c, points)
        r == NearestRight(c, points)
    IN  RAdd(g[l], RMul(RSub(g[r], g[l]), Rat(c[2] - l[2], r[2] - l[2])))

\* scipy.interpolate.griddata(coords, values, (grid_y, grid_x),
\* method='linear', fill_value=...) evaluated at every cell of the grid
griddata(points, g, fill_value) ==
    IF points = {} THEN [err |-> "ValueError", grid |-> NoGrid]
    ELSE IF ~HasSimplex(points) THEN [err |-> "QhullError", grid |-> NoGrid]
    ELSE [err |-> "",
          grid |-> [c \in Cells |->
                      IF c \in points THEN g[c]
                      ELSE IF InHull(c, points) THEN LinearOnEdge(c, points, g)
                      ELSE fill_value]]

\* np.nanmean(values) if len(values) > 0 else 0
FillValue(g) == IF KnownCells(g) # {} THEN NanMean(g) ELSE R(0)

\* if np.any(np.isnan(elevation_data)): ... griddata(...)
FillNaN(g) ==
    IF \E c \in Cells : IsNaN(g[c])
    THEN griddata(KnownCells(g), g, FillValue(g))
    ELSE [err |-> "", grid |-> g]

\* the whole Gap Filler: sentinel masking, then interpolation
GapFill(g, nodata) == FillNaN(MaskNoData(g, nodata))

-----------------------------------------------------------------------------
(* The Normalizers                                                         *)

Zeros == [c \in Cells |-> R(0)]

\* mutant: the range divided by is max instead of max - min
Scale_DivideByMax(g, lo, hi) == [c \in Cells |-> RDiv(RSub(g[c], lo), hi)]

Scale(g, lo, hi) == [c \in Cells |-> RDiv(RSub(g[c], lo), RSub(hi, lo))]

\* backend/app.py: nanmin/nanmax, "if max_elevation > min_elevation"
NormalizeApp(g) ==
    LET min_elevation == NanMin(g)
        max_elevation == NanMax(g)
    IN  IF RLt(min_elevation, max_elevation)
        THEN Scale(g, min_elevation, max_elevation)
        ELSE Zeros

\* dem_processor.py, process_dem_with_gdal: np.min/np.max, "if max == min"
NormalizeScript(g) ==
    LET min_elev == NpMin(g)
        max_elev == NpMax(g)
    IN  IF REq(max_elev, min_elev) THEN Zeros ELSE Scale(g, min_elev, max_elev)

\* image_utils.normalize_heightmap(heightmap, min_val, max_val)
normalize_heightmap(g, min_val, max_val) ==
    LET h_min == NpMin(g)
        h_max == NpMax(g)
    IN  IF REq(h_max, h_min) THEN [c \in Cells |-> min_val]
        ELSE [c \in Cells |->
                RAdd(RMul(Scale(g, h_min, h_max)[c], RSub(max_val, min_val)), min_val)]

\* process_dem_with_rasterio: nanmin/nanmax, "if max == min", np.nan_to_num
NormalizeRasterio(g) ==
    LET min_elev == NanMin(g)
        max_elev == NanMax(g)
        normalized == IF REq(max_elev, min_elev) THEN Zeros
                      ELSE Scale(g, min_elev, max_elev)
    IN  [c \in Cells |-> IF IsNaN(normalized[c]) THEN R(0) ELSE normalized[c]]

-----------------------------------------------------------------------------
(* The Quantizers                                                          *)

\* ndarray.astype(np.uintN) of an integer-valued sample: wraps modulo 2^N
Pow2(bits) == IF bits = 8 THEN 256 ELSE 65536
AsUint(i, bits) == i % Pow2(bits)

\* mutant: the 8-bit scale is 256, so 1.0 becomes 256 and wraps
ToUint8_Scale256(x) == AsUint(Trunc(RMul(x, R(256))), 8)

\* (heightmap * 255).astype(np.uint8)
ToUint8(x) == AsUint(Trunc(RMul(x, R(255))), 8)

\* (heightmap * 65535).astype(np.uint16)
ToUint16(x) == AsUint(Trunc(RMul(x, R(65535))), 16)

\* mutant: the 8-bit sample is shifted into the high byte
Widen16_Shift(v) == AsUint(v * 256, 16)

\* (np.array(image) / 255.0 * 65535).astype(np.uint16) of an 8-bit sample
Widen16(v) == AsUint(Trunc(RMul(RDiv(R(v), R(255)), R(65535))), 16)

Quantize8Grid(g) == [c \in Cells |-> R(ToUint8(g[c]))]

-----------------------------------------------------------------------------
(* The pipeline entry points                                               *)

\* the resolutions process_dem accepts
SupportedResolutions == {129, 257, 513, 1025, 2049, 4097}

\* A written heightmap: size x size samples of `depth` bits, resampled from
\* the grid `pre` (app.py: the 8-bit grid, LANCZOS, then Widen16 of each
\* sample; the scripts: the normalized grid, ndimage.zoom, then ToUint16).
NoImage == [size |-> 0, depth |-> 0, pre |-> NoGrid]

NoRun == [error |-> "", opened |-> FALSE, written |-> FALSE,
          elevation_data |-> NoGrid, normalized |-> NoGrid, image |-> NoImage]

\* backend/app.py process_dem_to_heightmap(dem_path, resolution); the
\* except clause re-raises, so the error reaches the caller
app_process_dem_to_heightmap(dem, res) ==
    IF ~dem.valid
    THEN [NoRun EXCEPT !.error = "RasterioIOError", !.opened = TRUE]
    ELSE LET gap == GapFill(dem.grid, dem.nodata)
         IN  IF gap.err # ""
             THEN [NoRun EXCEPT !.error = gap.err, !.opened = TRUE]
             ELSE LET normalized == NormalizeApp(gap.grid)
                  IN  [error |-> "", opened |-> TRUE, written |-> TRUE,
                       elevation_data |-> gap.grid,
                       normalized |-> normalized,
                       image |-> [size |-> res, depth |-> 16,
                                  pre |-> Quantize8Grid(normalized)]]

\* dem_processor_alt.py process_dem_with_gdal, and dem_processor.py
\* process_dem_to_heightmap, which is the same code
process_dem_with_gdal(dem, res) ==
    IF ~dem.valid
    THEN [NoRun EXCEPT !.error = "SystemExit", !.opened = TRUE]
    ELSE LET normalized == NormalizeScript(dem.grid)
         IN  [error |-> "", opened |-> TRUE, written |-> TRUE,
              elevation_data |-> dem.grid,
              normalized |-> normalized,
              image |-> [size |-> res, depth |-> 16, pre |-> normalized]]

\* dem_processor_alt.py process_dem_with_rasterio
process_dem_with_rasterio(dem, res) ==
    IF ~dem.valid
    THEN [NoRun EXCEPT !.error = "RasterioIOError", !.opened = TRUE]
    ELSE LET elevation_data == MaskNoData(dem.grid, dem.nodata)
             normalized == NormalizeRasterio(elevation_data)
         IN  [error |-> "", opened |-> TRUE, written |-> TRUE,
              elevation_data |-> elevation_data,
              normalized |-> normalized,
              image |-> [size |-> res, depth |-> 16, pre |-> normalized]]

\* dem_processor_alt.py process_dem_to_heightmap: the backend found at import
alt_process_dem_to_heightmap(dem, res, GDAL_AVAILABLE) ==
    IF GDAL_AVAILABLE THEN process_dem_with_gdal(dem, res)
    ELSE process_dem_with_rasterio(dem, res)

-----------------------------------------------------------------------------
(* SpecPipe: every entry point applied to every small raster               *)

InvalidRaster == [valid |-> FALSE, grid |-> NoGrid, nodata |-> {}]

Rasters ==
    {[valid |-> TRUE, grid |-> g, nodata |-> nd] : g \in Grids, nd \in NoDataChoices}
    \cup {InvalidRaster}

\* one supported and one unsupported resolution
PipeResolutions == {513, 500}

\* resp: the request (op, file_id, resolution), the response (status,
\* deleted, body, info) and what the handler did: io lists its filesystem
\* calls in order, before is the store it started from, repeat says that the
\* request before it was a cleanup of the same file_id; args holds what a
\* download-dem request carried and how the elevation provider answered it.
NoArgs == [latitude |-> "None", longitude |-> "None", api_key |-> "", upstream |-> "none"]

NoResp == [op |-> "none", file_id |-> <<>>, resolution |-> 0, status |-> 0,
           deleted |-> <<>>, before |-> {}, io |-> <<>>,
           body |-> NoImage, info |-> <<NaN, NaN>>, repeat |-> FALSE,
           args |-> NoArgs]

HttpIdle ==
    /\ store = {}
    /\ issued = {}
    /\ cleaned = {}
    /\ resp = NoResp
    /\ OPENTOPO_API_KEY = ""

NoSample == [out8 |-> 0, out16 |-> 0, resized8 |-> 0, wide16 |-> 0]

\* the server threads that handle requests at the same time
Workers == {1, 2}

\* req[w]: the request thread w handles (op, file_id, resolution), the
\* statement it is at (at), its locals (image: the heightmap it computed;
\* linked: the file it opened for writing is still the one at output_path;
\* rest: the patterns cleanup has not gone through yet; deleted) and its
\* response (status, body: the file content send_file read).
NoBody == [image |-> NoImage, partial |-> FALSE]
IdleReq == [op |-> "idle", file_id |-> <<>>, resolution |-> 0, at |-> "idle",
            image |-> NoImage, linked |-> FALSE, rest |-> <<>>,
            deleted |-> <<>>, status |-> 0, body |-> NoBody]

ConcIdle == req = [w \in Workers |-> IdleReq]

\* hook: the arguments of one call_webhook (webhook_path, api_key, headers),
\* the answer the hub will give, the POSTs sent, and how the call ended
NoError == [error |-> "", status |-> 0]
NoAnswer == [kind |-> "none", status |-> 0, json |-> FALSE]
NoCall == [method |-> "none", webhook_path |-> "", api_key |-> "", headers |-> "None",
           upstream |-> NoAnswer, posts |-> <<>>, raised |-> NoError,
           returned |-> "none"]

HookIdle == hook = NoCall

\* resized: the function applied (by), the input grid and its shape
\* <<rows, columns>>, the size asked for, and the output grid and its shape
NoResize == [by |-> "none", shape |-> <<0, 0>>, input |-> <<>>, target |-> <<0, 0>>,
             out_shape |-> <<0, 0>>, output |-> <<>>]

ResizeIdle == resized = NoResize

PipeIdle ==
    /\ raster = InvalidRaster
    /\ resolution = 0
    /\ run = NoRun

QuantIdle ==
    /\ sample = NaN
    /\ quant = NoSample

InitPipe ==
    /\ pc = "input"
    /\ raster \in Rasters
    /\ resolution \in PipeResolutions
    /\ run = NoRun
    /\ HttpIdle
    /\ QuantIdle
    /\ ConcIdle
    /\ HookIdle
    /\ ResizeIdle

AppPipeline ==
    /\ pc = "input"
    /\ pc' = "app"
    /\ run' = app_process_dem_to_heightmap(raster, resolution)
    /\ UNCHANGED <<raster, resolution, httpVars, quantVars, concVars, hookVars, resizeVars>>

ScriptPipeline ==
    /\ pc = "input"
    /\ pc' = "script"
    /\ run' = process_dem_with_gdal(raster, resolution)
    /\ UNCHANGED <<raster, resolution, httpVars, quantVars, concVars, hookVars, resizeVars>>

AltPipeline ==
    /\ pc = "input"
    /\ \E gdal \in BOOLEAN :
         /\ pc' = (IF gdal THEN "alt_gdal" ELSE "alt_rasterio")
         /\ run' = alt_process_dem_to_heightmap(raster, resolution, gdal)
    /\ UNCHANGED <<raster, resolution, httpVars, quantVars, concVars, hookVars, resizeVars>>

UtilsNormalize ==
    /\ pc = "input"
    /\ raster.valid
    /\ pc' = "normalize_heightmap"
    /\ run' = [NoRun EXCEPT !.elevation_data = raster.grid,
                            !.normalized = normalize_heightmap(raster.grid, R(0), R(1))]
    /\ UNCHANGED <<raster, resolution, httpVars, quantVars, concVars, hookVars, resizeVars>>

NextPipe == AppPipeline \/ ScriptPipeline \/ AltPipeline \/ UtilsNormalize

SpecPipe == InitPipe /\ [][NextPipe]_vars

-----------------------------------------------------------------------------
(* Properties of the pipeline (SpecPipe)                                   *)

EntryPointRan == pc \in {"app", "script", "alt_gdal", "alt_rasterio"}

\* C2: a pipeline entry point called with a resolution outside the supported
\* set fails with an input error before it opens the source raster and
\* before it writes an output file (stated for the rasters that decode and
\* hold no NaN, where nothing else can make the call fail).
C2_EntryRejectsUnsupportedResolution ==
    (EntryPointRan /\ resolution \notin SupportedResolutions
        /\ raster.valid /\ Finite(raster.grid))
        => (run.error = "InputError" /\ ~run.opened /\ ~run.written)

\* the Normalizer of app.py, dem_processor.py or image_utils.py has run on a
\* grid without NaN
NormalizerRanOnFinite ==
    /\ pc \in {"app", "script", "normalize_heightmap"}
    /\ run.error = ""
    /\ Finite(run.elevation_data)

KnownOfRaster == KnownCells(MaskNoData(raster.grid, raster.nodata))

\* C8: for a grid with a declared sentinel and at least one known cell the
\* Gap Filler output has no NaN cell and no cell equal to the sentinel.
C8_GapFillComplete ==
    (pc = "app" /\ raster.valid /\ raster.nodata # {} /\ KnownOfRaster # {})
        => /\ run.error = ""
           /\ \A c \in Cells : /\ ~IsNaN(run.elevation_data[c])
                               /\ run.elevation_data[c] \notin raster.nodata

C10_AllMissingGivesZeros ==
    (pc = "app" /\ raster.valid /\ raster.nodata # {}
        /\ \A c \in Cells : raster.grid[c] \in raster.nodata)
        => (run.error = "" /\ run.elevation_data = Zeros /\ run.written)

\* C18: for every raster (one that declares a sentinel and holds sentinel
\* cells included) and every resolution, the backend that ran and the other
\* backend of dem_processor_alt.py produce the same heightmap samples.
C18_BackendsInterchangeable ==
    (pc \in {"alt_gdal", "alt_rasterio"} /\ raster.valid /\ Finite(raster.grid))
        => /\ run.error = ""
           /\ run.image = alt_process_dem_to_heightmap(raster, resolution,
                                                       pc # "alt_gdal").image

-----------------------------------------------------------------------------
(* The temp store of backend/app.py                                        *)

\* File ids and paths are sequences of tokens, so that str.replace can be
\* modelled by what it does; the empty sequence is the empty string.
UuidPool == {<<"u1">>, <<"u2">>}
EmptyId == <<>>
\* an id no download ever returned
UnknownId == <<"zz">>
\* A client sends an id a download gave it, an id that was never issued, or
\* none: a uuid4 cannot be guessed before it is drawn.
RequestFileIds(iss) == iss \cup {EmptyId, UnknownId}

\* os.path.join(UPLOAD_FOLDER, pattern)
UploadPath(pattern) == <<"temp/">> \o pattern

\* f'dem_{file_id}.tif' and f'dem_{file_id}_heightmap.png'
DemPattern(file_id) == <<"dem_">> \o file_id \o <<".tif">>
HeightmapPattern(file_id) == <<"dem_">> \o file_id \o <<"_heightmap.png">>

\* mutant: the heightmap is written over the input
OutputPath_InPlace(dem_path) == dem_path

\* dem_path.replace('.tif', '_heightmap.png'): every occurrence is replaced
OutputPath(dem_path) ==
    [i \in DOMAIN dem_path |->
        IF dem_path[i] = ".tif" THEN "_heightmap.png" ELSE dem_path[i]]

\* file contents: a downloaded body (a raster, or bytes that do not decode)
\* or a heightmap image; partial marks a file whose write was cut short
TifFile(r) == [kind |-> "tif", raster |-> r, image |-> NoImage, partial |-> FALSE]
PngFile(img) == [kind |-> "png", raster |-> InvalidRaster, image |-> img, partial |-> FALSE]
PartialPng == [kind |-> "png", raster |-> InvalidRaster, image |-> NoImage, partial |-> TRUE]

\* os.path.exists(path)
Exists(st, path) == \E f \in st : f.name = path

ReadFile(st, path) == (CHOOSE f \in st : f.name = path).content

\* open(path, 'wb').write(...) / image.save(path): creates or overwrites
WriteFile(st, path, content) ==
    {f \in st : f.name # path} \cup {[name |-> path, content |-> content]}

\* mutant: the whole folder is emptied
RemoveFile_WholeFolder(st, path) == {}

\* os.remove(path)
RemoveFile(st, path) == {f \in st : f.name # path}

\* rasterio.open(dem_path): what the file decodes to
Decode(content) == IF content.kind = "tif" THEN content.raster ELSE InvalidRaster

-----------------------------------------------------------------------------
(* The bodies the elevation provider can answer with                       *)

G6(a, b, c, d, e, f) ==
    (<<0, 0>> :> a) @@ (<<0, 1>> :> b) @@ (<<0, 2>> :> c) @@
    (<<1, 0>> :> d) @@ (<<1, 1>> :> e) @@ (<<1, 2>> :> f)

\* a ramp with one sentinel cell, an all-sentinel raster, and a body that is
\* no raster (SpecPipe runs the pipeline on every raster)
GappyRaster == [valid |-> TRUE, nodata |-> {R(1)},
                grid |-> G6(R(0), R(1), R(2), R(0), R(2), R(2))]
VoidRaster == [valid |-> TRUE, nodata |-> {R(1)},
               grid |-> G6(R(1), R(1), R(1), R(1), R(1), R(1))]
UpstreamBodies == {GappyRaster, VoidRaster, InvalidRaster}

\* the resolutions a client sends: two supported ones and an unsupported one
RequestResolutions == {129, 513, 500}

-----------------------------------------------------------------------------
(* The handlers of backend/app.py, as functions of the store               *)

\* process_dem_to_heightmap(dem_path, resolution) is a function of what the
\* file decodes to and of the resolution; tabulated over the bodies the store
\* can hold, so that it is computed once
HeightmapOf ==
    [dem \in UpstreamBodies, res \in SupportedResolutions |->
        app_process_dem_to_heightmap(dem, res)]

\* mutant: the file is looked up before the resolution is validated
process_dem_ExistsFirst(st, file_id, res, save) ==
    LET dem_path == UploadPath(DemPattern(file_id))
        none == [status |-> 400, io |-> <<>>, store |-> st, body |-> NoImage]
    IN  IF file_id = EmptyId THEN none
        ELSE IF ~Exists(st, dem_path)
        THEN [none EXCEPT !.status = 404, !.io = <<"exists">>]
        ELSE IF res \notin SupportedResolutions
        THEN [none EXCEPT !.io = <<"exists">>]
        ELSE [none EXCEPT !.status = 500, !.io = <<"exists", "open">>]

\* POST /api/process-dem. save is how image_16bit.save ends: "ok"; "partial"
\* (the write fails and the cut-short file stays); "removed" (the write
\* fails and Pillow removes the file if this call created it).
process_dem(st, file_id, res, save) ==
    LET dem_path == UploadPath(DemPattern(file_id))
        none == [status |-> 400, io |-> <<>>, store |-> st, body |-> NoImage]
    IN  IF file_id = EmptyId THEN none
        ELSE IF res \notin SupportedResolutions THEN none
        ELSE IF ~Exists(st, dem_path)
        THEN [none EXCEPT !.status = 404, !.io = <<"exists">>]
        ELSE
            LET r == HeightmapOf[Decode(ReadFile(st, dem_path)), res]
                output_path == OutputPath(dem_path)
            IN  IF r.error # ""
                THEN [none EXCEPT !.status = 500, !.io = <<"exists", "open">>]
                ELSE IF save = "ok"
                THEN [status |-> 200,
                      io |-> <<"exists", "open", "save", "send_file">>,
                      store |-> WriteFile(st, output_path, PngFile(r.image)),
                      body |-> r.image]
                ELSE [status |-> 500,
                      io |-> <<"exists", "open", "save">>,
                      store |-> IF save = "partial" \/ Exists(st, output_path)
                                THEN WriteFile(st, output_path, PartialPng)
                                ELSE st,
                      body |-> NoImage]

\* POST /api/process-dem-info
process_dem_info(st, file_id) ==
    LET dem_path == UploadPath(DemPattern(file_id))
        none == [status |-> 400, io |-> <<>>, store |-> st, info |-> <<NaN, NaN>>]
    IN  IF file_id = EmptyId THEN none
        ELSE IF ~Exists(st, dem_path)
        THEN [none EXCEPT !.status = 404, !.io = <<"exists">>]
        ELSE
            LET src == Decode(ReadFile(st, dem_path))
                elevation_data == MaskNoData(src.grid, src.nodata)
            IN  IF ~src.valid
                THEN [none EXCEPT !.status = 500, !.io = <<"exists", "open">>]
                ELSE [none EXCEPT !.status = 200, !.io = <<"exists", "open">>,
                                  !.info = <<NanMin(elevation_data), NanMax(elevation_data)>>]

\* mutant: cleanup forgets the input file
CleanupPatterns_HeightmapOnly(file_id) == <<HeightmapPattern(file_id)>>

\* the patterns cleanup goes through, in order
CleanupPatterns(file_id) == <<DemPattern(file_id), HeightmapPattern(file_id)>>

\* mutant: deleted.append(pattern) sits outside the "if os.path.exists"
RECURSIVE CleanupLoop_AppendAlways(_, _, _)
CleanupLoop_AppendAlways(st, patterns, deleted) ==
    IF patterns = <<>> THEN [store |-> st, deleted |-> deleted]
    ELSE CleanupLoop_AppendAlways(RemoveFile(st, UploadPath(Head(patterns))),
                                  Tail(patterns), Append(deleted, Head(patterns)))

\* "for pattern in patterns": remove what exists and list it
RECURSIVE CleanupLoop(_, _, _)
CleanupLoop(st, patterns, deleted) ==
    IF patterns = <<>> THEN [store |-> st, deleted |-> deleted]
    ELSE LET pattern == Head(patterns)
             file_path == UploadPath(pattern)
         IN  IF Exists(st, file_path)
             THEN CleanupLoop(RemoveFile(st, file_path), Tail(patterns),
                              Append(deleted, pattern))
             ELSE CleanupLoop(st, Tail(patterns), deleted)

\* POST /api/cleanup
cleanup(st, file_id) ==
    IF file_id = EmptyId
    THEN [status |-> 400, io |-> <<>>, store |-> st, deleted |-> <<>>]
    ELSE LET done == CleanupLoop(st, CleanupPatterns(file_id), <<>>)
         IN  [status |-> 200,
              io |-> <<"exists", "exists">>,
              store |-> done.store,
              deleted |-> done.deleted]

\* uuid.uuid4(): an id never handed out before
FreshIds(iss) == UuidPool \ iss

\* POST /api/download-dem. latitude/longitude: present or None; api_key: the
\* request's own key or ""; upstream: "ok" or "RequestException" (network
\* error, timeout, or raise_for_status on a non-2xx answer); content: the
\* body received; file_id: the uuid drawn.
download_dem(st, env_key, latitude, longitude, api_key, upstream, content, file_id) ==
    LET none == [status |-> 400, io |-> <<>>, store |-> st, file_id |-> EmptyId]
    IN  IF latitude = "None" \/ longitude = "None" THEN none
        ELSE IF env_key = "" /\ api_key = "" THEN [none EXCEPT !.status = 500]
        ELSE IF upstream # "ok" THEN [none EXCEPT !.status = 500]
        ELSE [status |-> 200,
              io |-> <<"write">>,
              store |-> WriteFile(st, UploadPath(DemPattern(file_id)), TifFile(content)),
              file_id |-> file_id]

-----------------------------------------------------------------------------
(* Spec: the HTTP server, one request at a time                            *)

Init ==
    /\ store = {}
    /\ issued = {}
    /\ cleaned = {}
    /\ resp = NoResp
    /\ OPENTOPO_API_KEY \in {"", "key"}
    /\ pc = "http"
    /\ PipeIdle
    /\ QuantIdle
    /\ ConcIdle
    /\ HookIdle
    /\ ResizeIdle

DownloadDem ==
    \E latitude, longitude \in {"None", "number"}, api_key \in {"", "key"},
       upstream \in {"ok", "RequestException"}, content \in UpstreamBodies,
       file_id \in FreshIds(issued) :
        LET r == download_dem(store, OPENTOPO_API_KEY, latitude, longitude,
                              api_key, upstream, content, file_id)
        IN  /\ store' = r.store
            /\ issued' = IF r.status = 200 THEN issued \cup {file_id} ELSE issued
            /\ resp' = [NoResp EXCEPT !.op = "download-dem", !.file_id = r.file_id,
                                      !.status = r.status, !.io = r.io,
                                      !.before = store,
                                      !.args = [latitude |-> latitude,
                                                longitude |-> longitude,
                                                api_key |-> api_key,
                                                upstream |-> upstream]]
            /\ UNCHANGED <<cleaned, OPENTOPO_API_KEY, pc, pipeVars, quantVars, concVars, hookVars, resizeVars>>

ProcessDem ==
    \E file_id \in RequestFileIds(issued), res \in RequestResolutions,
       save \in {"ok", "partial", "removed"} :
        LET r == process_dem(store, file_id, res, save)
        IN  /\ store' = r.store
            /\ resp' = [NoResp EXCEPT !.op = "process-dem", !.file_id = file_id,
                                      !.resolution = res, !.status = r.status,
                                      !.io = r.io, !.body = r.body,
                                      !.before = store]
            /\ UNCHANGED <<issued, cleaned, OPENTOPO_API_KEY, pc, pipeVars, quantVars, concVars, hookVars, resizeVars>>

ProcessDemInfo ==
    \E file_id \in RequestFileIds(issued) :
        LET r == process_dem_info(store, file_id)
        IN  /\ store' = r.store
            /\ resp' = [NoResp EXCEPT !.op = "process-dem-info", !.file_id = file_id,
                                      !.status = r.status, !.io = r.io,
                                      !.info = r.info, !.before = store]
            /\ UNCHANGED <<issued, cleaned, OPENTOPO_API_KEY, pc, pipeVars, quantVars, concVars, hookVars, resizeVars>>

Cleanup ==
    \E file_id \in RequestFileIds(issued) :
        LET r == cleanup(store, file_id)
        IN  /\ store' = r.store
            /\ cleaned' = IF r.status = 200 THEN cleaned \cup {file_id} ELSE cleaned
            /\ resp' = [NoResp EXCEPT !.op = "cleanup", !.file_id = file_id,
                                      !.status = r.status, !.io = r.io,
                                      !.deleted = r.deleted, !.before = store,
                                      !.repeat = (resp.op = "cleanup"
                                                  /\ resp.file_id = file_id)]
            /\ UNCHANGED <<issued, OPENTOPO_API_KEY, pc, pipeVars, quantVars, concVars, hookVars, resizeVars>>

Next == DownloadDem \/ ProcessDem \/ ProcessDemInfo \/ Cleanup

Spec == Init /\ [][Next]_vars

-----------------------------------------------------------------------------
(* Properties of the HTTP server (Spec)                                    *)

DemPathOf(file_id) == UploadPath(DemPattern(file_id))

\* C1: process-dem with a non-empty file_id and an unsupported resolution
\* answers 400 without any filesystem call and leaves the store unchanged,
\* whether or not the DEM is stored.
C1_InvalidResolutionRejectedBeforeIO ==
    (resp.op = "process-dem" /\ resp.file_id # EmptyId
        /\ resp.resolution \notin SupportedResolutions)
        => (resp.status = 400 /\ resp.io = <<>> /\ store = resp.before)

\* the 400 was given for a DEM that is stored
C1_Witness ==
    /\ resp.op = "process-dem"
    /\ resp.file_id # EmptyId
    /\ resp.resolution = 500
    /\ resp.status = 400
    /\ Exists(resp.before, DemPathOf(resp.file_id))

\* C3: a cleanup for a non-empty file_id succeeds, and one that directly
\* follows a cleanup of the same file_id deletes nothing and leaves the
\* store unchanged.
C3_CleanupIdempotent ==
    (resp.op = "cleanup" /\ resp.file_id # EmptyId)
        => /\ resp.status = 200
           /\ resp.repeat => (resp.deleted = <<>> /\ store = resp.before)

\* the second of two consecutive cleanups of a file_id that was downloaded
C3_Witness ==
    /\ resp.op = "cleanup"
    /\ resp.repeat
    /\ resp.file_id \in issued
    /\ resp.status = 200
    /\ resp.deleted = <<>>

\* C4: with a non-empty file_id (and a supported resolution) whose input is
\* not stored, process-dem and process-dem-info answer 404 and create no
\* file; after cleanup(file_id) every process-dem for it answers 404.
C4_MissingInput404 ==
    /\ (resp.op = "process-dem" /\ resp.file_id # EmptyId
           /\ resp.resolution \in SupportedResolutions
           /\ ~Exists(resp.before, DemPathOf(resp.file_id)))
           => (resp.status = 404 /\ store = resp.before)
    /\ (resp.op = "process-dem-info" /\ resp.file_id # EmptyId
           /\ ~Exists(resp.before, DemPathOf(resp.file_id)))
           => (resp.status = 404 /\ store = resp.before)
    /\ (resp.op = "process-dem" /\ resp.file_id \in cleaned
           /\ resp.resolution \in SupportedResolutions)
           => resp.status = 404

\* process-dem for a file_id that was downloaded and then cleaned up
C4_Witness ==
    /\ resp.op = "process-dem"
    /\ resp.file_id \in issued
    /\ resp.file_id \in cleaned
    /\ resp.resolution \in SupportedResolutions
    /\ resp.status = 404

OutPathOf(file_id) == UploadPath(HeightmapPattern(file_id))

\* C11: after a process-dem request that was answered 500, whatever stage
\* failed, dem_<file_id>_heightmap.png does not exist or is the complete
\* file an earlier successful request left; a cut-short file is removed.
C11_NoPartialOutputAfterFailure ==
    (resp.op = "process-dem" /\ resp.status = 500)
        => (Exists(store, OutPathOf(resp.file_id))
               => /\ ~ReadFile(store, OutPathOf(resp.file_id)).partial
                  /\ Exists(resp.before, OutPathOf(resp.file_id))
                  /\ ReadFile(store, OutPathOf(resp.file_id))
                        = ReadFile(resp.before, OutPathOf(resp.file_id)))

\* C13: download-dem answers 400 when latitude or longitude is missing
\* (whatever the API key), 500 when neither the environment nor the request
\* carries an API key, and 502 when the call to the elevation provider
\* fails; in each of these cases no file_id is returned and the store is
\* unchanged.
C13_DownloadFailureMapping ==
    resp.op = "download-dem" =>
        /\ (resp.args.latitude = "None" \/ resp.args.longitude = "None")
               => resp.status = 400
        /\ (resp.args.latitude # "None" /\ resp.args.longitude # "None"
               /\ OPENTOPO_API_KEY = "" /\ resp.args.api_key = "")
               => resp.status = 500
        /\ (resp.args.latitude # "None" /\ resp.args.longitude # "None"
               /\ (OPENTOPO_API_KEY # "" \/ resp.args.api_key # "")
               /\ resp.args.upstream # "ok")
               => resp.status = 502
        /\ resp.status # 200 => (resp.file_id = EmptyId /\ store = resp.before)

\* the two transient files of a file_id
FilesOf(file_id) == {DemPathOf(file_id), OutPathOf(file_id)}

\* C16: after a successful cleanup(file_id), with no other request running,
\* neither dem_<file_id>.tif nor dem_<file_id>_heightmap.png exists, no
\* file named after file_id is left, deleted lists exactly those of the two
\* names that existed before the call (in the order tif, png), and every
\* other file is untouched.
C16_CleanupRemovesExactlyTwo ==
    (resp.op = "cleanup" /\ resp.status = 200)
        => /\ \A path \in FilesOf(resp.file_id) : ~Exists(store, path)
           /\ \A f \in store : \A i \in DOMAIN f.name : <<f.name[i]>> # resp.file_id
           /\ resp.deleted = SelectSeq(CleanupPatterns(resp.file_id),
                                       LAMBDA p : Exists(resp.before, UploadPath(p)))
           /\ store = {f \in resp.before : f.name \notin FilesOf(resp.file_id)}

\* a cleanup after download and process-dem removed both files of its
\* file_id while another file_id's DEM stayed in the store
C16_Witness ==
    /\ resp.op = "cleanup"
    /\ resp.status = 200
    /\ resp.deleted = CleanupPatterns(resp.file_id)
    /\ \A path \in FilesOf(resp.file_id) : Exists(resp.before, path)
    /\ \E other \in issued : other # resp.file_id /\ Exists(store, DemPathOf(other))

\* C19: process-dem and process-dem-info, whether they succeed or fail,
\* leave every stored input dem_<id>.tif as it was; process-dem-info leaves
\* the whole store unchanged; process-dem changes no file but
\* dem_<file_id>_heightmap.png, and after a successful one that file holds
\* the heightmap at the requested resolution while the input is still there
\* to be processed again.
C19_InputNeverModified ==
    /\ resp.op \in {"process-dem", "process-dem-info"}
           => \A f \in resp.before : f.content.kind = "tif" => f \in store
    /\ resp.op = "process-dem-info" => store = resp.before
    /\ resp.op = "process-dem"
           => {f \in store : f.name # OutPathOf(resp.file_id)}
                 = {f \in resp.before : f.name # OutPathOf(resp.file_id)}
    /\ (resp.op = "process-dem" /\ resp.status = 200)
           => /\ Exists(store, DemPathOf(resp.file_id))
              /\ Exists(store, OutPathOf(resp.file_id))
              /\ ReadFile(store, OutPathOf(resp.file_id)) = PngFile(resp.body)
              /\ resp.body.size = resp.resolution

\* a file_id that already had a heightmap at one resolution was processed
\* again at another, from the same input
C19_Witness ==
    /\ resp.op = "process-dem"
    /\ resp.status = 200
    /\ Exists(resp.before, OutPathOf(resp.file_id))
    /\ ~ReadFile(resp.before, OutPathOf(resp.file_id)).partial
    /\ ReadFile(resp.before, OutPathOf(resp.file_id)).image.size # resp.resolution
    /\ ReadFile(store, DemPathOf(resp.file_id))
         = ReadFile(resp.before, DemPathOf(resp.file_id))

-----------------------------------------------------------------------------
(* SpecConc: the handlers of backend/app.py statement by statement, two    *)
(* requests at a time (app.run serves each request in a thread of its own) *)

concFrame == <<issued, cleaned, resp, OPENTOPO_API_KEY, pc, pipeVars, quantVars, hookVars,
               resizeVars>>

\* a DEM has been downloaded
InitConc ==
    /\ pc = "conc"
    /\ \E file_id \in UuidPool, content \in UpstreamBodies :
         /\ store = WriteFile({}, UploadPath(DemPattern(file_id)), TifFile(content))
         /\ issued = {file_id}
    /\ cleaned = {}
    /\ resp = NoResp
    /\ OPENTOPO_API_KEY = "key"
    /\ ConcIdle
    /\ PipeIdle
    /\ QuantIdle
    /\ HookIdle
    /\ ResizeIdle

\* the handler returns: the request of thread w is answered with `status`
Answer(r, status) == [r EXCEPT !.at = "done", !.status = status]

\* a process-dem request reaches thread w
StartProcessDem(w) ==
    /\ req[w].at = "idle"
    /\ \E file_id \in RequestFileIds(issued), res \in RequestResolutions :
         req' = [req EXCEPT ![w] = [IdleReq EXCEPT !.op = "process-dem",
                                                  !.file_id = file_id,
                                                  !.resolution = res,
                                                  !.at = "exists"]]
    /\ UNCHANGED <<store, concFrame>>

\* process_dem up to os.path.exists(dem_path)
PdExists(w) ==
    /\ req[w].op = "process-dem"
    /\ req[w].at = "exists"
    /\ req' = [req EXCEPT ![w] =
                 IF req[w].file_id = EmptyId THEN Answer(req[w], 400)
                 ELSE IF req[w].resolution \notin SupportedResolutions
                 THEN Answer(req[w], 400)
                 ELSE IF ~Exists(store, UploadPath(DemPattern(req[w].file_id)))
                 THEN Answer(req[w], 404)
                 ELSE [req[w] EXCEPT !.at = "open"]]
    /\ UNCHANGED <<store, concFrame>>

\* process_dem_to_heightmap from rasterio.open(dem_path) to the 16-bit image
PdOpen(w) ==
    /\ req[w].op = "process-dem"
    /\ req[w].at = "open"
    /\ LET dem_path == UploadPath(DemPattern(req[w].file_id))
       IN  req' = [req EXCEPT ![w] =
                     IF ~Exists(store, dem_path) THEN Answer(req[w], 500)
                     ELSE LET r == HeightmapOf[Decode(ReadFile(store, dem_path)),
                                               req[w].resolution]
                          IN  IF r.error # "" THEN Answer(req[w], 500)
                              ELSE [req[w] EXCEPT !.at = "save", !.image = r.image]]
    /\ UNCHANGED <<store, concFrame>>

\* image_16bit.save(output_path, 'PNG') opens the file for writing: it is
\* created, or the file that is there is cut to length zero
PdSaveOpen(w) ==
    /\ req[w].op = "process-dem"
    /\ req[w].at = "save"
    /\ store' = WriteFile(store, OutputPath(UploadPath(DemPattern(req[w].file_id))),
                          PartialPng)
    /\ req' = [req EXCEPT ![w] = [req[w] EXCEPT !.at = "write", !.linked = TRUE]]
    /\ UNCHANGED concFrame

\* image_16bit.save writes the image (taken as one step) and closes the
\* file; a file that was removed meanwhile takes the written bytes with it
PdSaveWrite(w) ==
    /\ req[w].op = "process-dem"
    /\ req[w].at = "write"
    /\ store' = IF req[w].linked
                THEN WriteFile(store, OutputPath(UploadPath(DemPattern(req[w].file_id))),
                               PngFile(req[w].image))
                ELSE store
    /\ req' = [req EXCEPT ![w] = [req[w] EXCEPT !.at = "send_file", !.linked = FALSE]]
    /\ UNCHANGED concFrame

\* send_file(heightmap_path, ...): the file now at that path is the body
PdSendFile(w) ==
    /\ req[w].op = "process-dem"
    /\ req[w].at = "send_file"
    /\ LET heightmap_path == OutputPath(UploadPath(DemPattern(req[w].file_id)))
       IN  req' = [req EXCEPT ![w] =
                     IF ~Exists(store, heightmap_path) THEN Answer(req[w], 500)
                     ELSE [Answer(req[w], 200) EXCEPT
                              !.body = [image |-> ReadFile(store, heightmap_path).image,
                                        partial |-> ReadFile(store, heightmap_path).partial]]]
    /\ UNCHANGED <<store, concFrame>>

\* a cleanup request reaches thread w
StartCleanup(w) ==
    /\ req[w].at = "idle"
    /\ \E file_id \in RequestFileIds(issued) :
         req' = [req EXCEPT ![w] = [IdleReq EXCEPT !.op = "cleanup",
                                                  !.file_id = file_id,
                                                  !.rest = CleanupPatterns(file_id),
                                                  !.at = "exists"]]
    /\ UNCHANGED <<store, concFrame>>

\* the loop of cleanup moves on to the next pattern, or ends and answers 200
NextPattern(r) ==
    IF Tail(r.rest) = <<>> THEN Answer([r EXCEPT !.rest = <<>>], 200)
    ELSE [r EXCEPT !.rest = Tail(r.rest), !.at = "exists"]

\* cleanup up to "if os.path.exists(file_path)" for the pattern at hand
CuExists(w) ==
    /\ req[w].op = "cleanup"
    /\ req[w].at = "exists"
    /\ req' = [req EXCEPT ![w] =
                 IF req[w].file_id = EmptyId THEN Answer(req[w], 400)
                 ELSE IF Exists(store, UploadPath(Head(req[w].rest)))
                 THEN [req[w] EXCEPT !.at = "remove"]
                 ELSE NextPattern(req[w])]
    /\ UNCHANGED <<store, concFrame>>

\* os.remove(file_path); deleted.append(pattern). A file that is gone makes
\* os.remove raise FileNotFoundError, which the handler answers with 500.
\* A thread that is writing the removed file keeps writing to a file that
\* no path names any more.
CuRemove(w) ==
    /\ req[w].op = "cleanup"
    /\ req[w].at = "remove"
    /\ LET pattern == Head(req[w].rest)
           file_path == UploadPath(pattern)
       IN  IF Exists(store, file_path)
           THEN /\ store' = RemoveFile(store, file_path)
                /\ req' = [v \in Workers |->
                             IF v = w
                             THEN NextPattern([req[w] EXCEPT
                                                 !.deleted = Append(@, pattern)])
                             ELSE IF /\ req[v].op = "process-dem"
                                     /\ req[v].at = "write"
                                     /\ OutputPath(UploadPath(DemPattern(req[v].file_id)))
                                          = file_path
                             THEN [req[v] EXCEPT !.linked = FALSE]
                             ELSE req[v]]
           ELSE /\ store' = store
                /\ req' = [req EXCEPT ![w] = Answer(req[w], 500)]
    /\ UNCHANGED concFrame

\* the response has been sent; the thread is free for the next request
Respond(w) ==
    /\ req[w].at = "done"
    /\ req' = [req EXCEPT ![w] = IdleReq]
    /\ UNCHANGED <<store, concFrame>>

NextConc ==
    \E w \in Workers :
        \/ StartProcessDem(w)
        \/ PdExists(w)
        \/ PdOpen(w)
        \/ PdSaveOpen(w)
        \/ PdSaveWrite(w)
        \/ PdSendFile(w)
        \/ StartCleanup(w)
        \/ CuExists(w)
        \/ CuRemove(w)
        \/ Respond(w)

SpecConc == InitConc /\ [][NextConc]_vars

\* C12: under every interleaving of process-dem requests (also two for the
\* same file_id at different resolutions) a request that is answered 200
\* returns the complete heightmap of its own run at its own resolution,
\* never another request's output and never a half-written file.
C12_ConcurrentProcessDemOwnOutput ==
    \A w \in Workers :
        (req[w].op = "process-dem" /\ req[w].at = "done" /\ req[w].status = 200)
            => /\ ~req[w].body.partial
               /\ req[w].body.image = req[w].image
               /\ req[w].body.image.size = req[w].resolution

\* C17: under every interleaving of requests on the same file_id (two
\* cleanups, or a cleanup and a process-dem) a cleanup with a non-empty
\* file_id is answered 200: a file that another request removed between
\* the existence check and the remove counts as already deleted.
C17_ConcurrentCleanupSucceeds ==
    \A w \in Workers :
        (req[w].op = "cleanup" /\ req[w].at = "done" /\ req[w].file_id # EmptyId)
            => req[w].status = 200

-----------------------------------------------------------------------------
(* SpecHook: the n8n client of backend/n8n_client.py                       *)

\* How the hub answers one request: a response (its status, and whether the
\* body is JSON), a refused connection, or a timeout.
HubStatuses == {200, 201, 204, 302, 400, 404, 500, 503}
HubAnswers ==
    {[kind |-> "response", status |-> st, json |-> j] :
        st \in HubStatuses, j \in BOOLEAN}
    \cup {[kind |-> "ConnectError", status |-> 0, json |-> FALSE],
          [kind |-> "ReadTimeout", status |-> 0, json |-> FALSE]}

WebhookPaths == {"/webhook/plantopia-ai-chat", "/webhook/plantopia-data-fetch"}

\* mutant: only 4xx and 5xx raise, a redirect passes
raise_for_status_ErrorsOnly(response) == response.status \in 400..599

\* response.raise_for_status(): HTTPStatusError unless the status is 2xx
raise_for_status(response) == response.status \notin 200..299

\* the headers call_webhook sends
RequestHeaders(api_key, headers) ==
    {"Content-Type"}
    \cup (IF api_key # "" THEN {"X-N8N-API-KEY"} ELSE {})
    \cup (IF headers # "None" THEN {headers} ELSE {})

\* N8NClient.call_webhook(webhook_path, payload, headers) when the hub's
\* answer to the POST is `answer`
call_webhook(api_key, webhook_path, headers, answer) ==
    LET post == [url |-> <<"N8N_BASE_URL", webhook_path>>,
                 headers |-> RequestHeaders(api_key, headers)]
        sent == [posts |-> <<post>>, raised |-> NoError, returned |-> "none"]
    IN  IF answer.kind = "ConnectError"
        THEN [sent EXCEPT !.raised = [error |-> "Cannot connect to n8n", status |-> 0]]
        ELSE IF answer.kind # "response"
        THEN [sent EXCEPT !.raised = [error |-> "n8n request failed", status |-> 0]]
        ELSE IF raise_for_status(answer)
        THEN [sent EXCEPT !.raised = [error |-> "n8n error", status |-> answer.status]]
        ELSE IF ~answer.json
        THEN [sent EXCEPT !.raised = [error |-> "n8n request failed", status |-> 0]]
        ELSE [sent EXCEPT !.returned = "json"]

\* N8NClient.health_check(): a GET, and every failure reported as False
health_check(answer) ==
    [posts |-> <<>>, raised |-> NoError,
     returned |-> IF answer.kind = "response" /\ answer.status = 200
                  THEN "True" ELSE "False"]

\* N8NClient(): N8N_API_KEY is read from the environment
InitHook ==
    /\ pc = "hook"
    /\ \E key \in {"", "secret"} : hook = [NoCall EXCEPT !.api_key = key]
    /\ HttpIdle
    /\ PipeIdle
    /\ QuantIdle
    /\ ConcIdle
    /\ ResizeIdle

Called(method, webhook_path, headers, answer, r) ==
    [method |-> method, webhook_path |-> webhook_path, api_key |-> hook.api_key,
     headers |-> headers, upstream |-> answer, posts |-> r.posts,
     raised |-> r.raised, returned |-> r.returned]

CallWebhook ==
    /\ \E webhook_path \in WebhookPaths, headers \in {"None", "X-Request-Id"},
          answer \in HubAnswers :
         hook' = Called("call_webhook", webhook_path, headers, answer,
                        call_webhook(hook.api_key, webhook_path, headers, answer))
    /\ UNCHANGED <<pc, httpVars, pipeVars, quantVars, concVars, resizeVars>>

ChatWithAi ==
    /\ \E answer \in HubAnswers :
         hook' = Called("chat_with_ai", "/webhook/plantopia-ai-chat", "None", answer,
                        call_webhook(hook.api_key, "/webhook/plantopia-ai-chat",
                                     "None", answer))
    /\ UNCHANGED <<pc, httpVars, pipeVars, quantVars, concVars, resizeVars>>

FetchData ==
    /\ \E answer \in HubAnswers :
         hook' = Called("fetch_data", "/webhook/plantopia-data-fetch", "None", answer,
                        call_webhook(hook.api_key, "/webhook/plantopia-data-fetch",
                                     "None", answer))
    /\ UNCHANGED <<pc, httpVars, pipeVars, quantVars, concVars, resizeVars>>

HealthCheck ==
    /\ \E answer \in HubAnswers :
         hook' = Called("health_check", "/healthz", "None", answer, health_check(answer))
    /\ UNCHANGED <<pc, httpVars, pipeVars, quantVars, concVars, resizeVars>>

NextHook == CallWebhook \/ ChatWithAi \/ FetchData \/ HealthCheck

SpecHook == InitHook /\ [][NextHook]_vars

ViaCallWebhook == hook.method \in {"call_webhook", "chat_with_ai", "fetch_data"}

\* C14: every call_webhook invocation (direct, or through chat_with_ai and
\* fetch_data) sends exactly one POST; a non-2xx response raises an error
\* that carries the upstream status code, a connection failure or any other
\* failure raises an error, and a value is returned only when that one POST
\* was answered 2xx - never both, never neither.
C14_WebhookSinglePostNoSwallow ==
    ViaCallWebhook =>
        /\ Len(hook.posts) = 1
        /\ hook.posts[1].url = <<"N8N_BASE_URL", hook.webhook_path>>
        /\ (hook.upstream.kind = "response" /\ hook.upstream.status \notin 200..299)
               => (hook.raised.error = "n8n error"
                     /\ hook.raised.status = hook.upstream.status)
        /\ hook.upstream.kind # "response" => hook.raised.error # ""
        /\ hook.returned # "none"
               => (hook.upstream.kind = "response"
                     /\ hook.upstream.status \in 200..299)
        /\ (hook.raised.error # "") # (hook.returned # "none")

\* the hub answered 503 and the caller got an error naming 503
C14_Witness ==
    /\ hook.method = "call_webhook"
    /\ hook.upstream.kind = "response"
    /\ hook.upstream.status = 503
    /\ Len(hook.posts) = 1
    /\ hook.raised = [error |-> "n8n error", status |-> 503]
    /\ hook.returned = "none"

-----------------------------------------------------------------------------
(* SpecResize: the Resampler (ndimage.zoom of order 1, Image.resize)       *)

\* the cells of a grid of shape <<rows, columns>>
CellsOf(shape) == (0..(shape[1] - 1)) \X (0..(shape[2] - 1))

FiniteOn(g, shape) == \A c \in CellsOf(shape) : ~IsNaN(g[c])

\* floor of a non-negative sample
Floor(a) == a.n \div a.d

\* ndimage.zoom: output_shape = int(round(ii * jj)) on each axis
ZoomShape(shape, zoom_factor) ==
    <<RoundNearest(RMul(R(shape[1]), zoom_factor[1])),
      RoundNearest(RMul(R(shape[2]), zoom_factor[2]))>>

\* ndimage.zoom with grid_mode=False: output index i of an axis is read at
\* input coordinate i * (n_in - 1) / (n_out - 1), or i where n_out = 1
ZoomCoord(i, n_in, n_out) ==
    IF n_out > 1 THEN Rat(i * (n_in - 1), n_out - 1) ELSE R(i)

\* mode='constant', cval=0.0: a sample outside the grid reads as 0
SampleAt(g, shape, y, x) ==
    IF <<y, x>> \in CellsOf(shape) THEN g[<<y, x>>] ELSE R(0)

\* order=1: the four samples around (y, x), weighted linearly; a weight of
\* zero still multiplies its sample, as in the C loop
Bilinear(g, shape, y, x) ==
    LET y0 == Floor(y)
        x0 == Floor(x)
        fy == RSub(y, R(y0))
        fx == RSub(x, R(x0))
        wy0 == RSub(R(1), fy)
        wx0 == RSub(R(1), fx)
    IN  RAdd(RAdd(RMul(RMul(wy0, wx0), SampleAt(g, shape, y0, x0)),
                  RMul(RMul(wy0, fx), SampleAt(g, shape, y0, x0 + 1))),
             RAdd(RMul(RMul(fy, wx0), SampleAt(g, shape, y0 + 1, x0)),
                  RMul(RMul(fy, fx), SampleAt(g, shape, y0 + 1, x0 + 1))))

\* scipy.ndimage.zoom(input, zoom_factor, order=1)
zoom(g, shape, zoom_factor) ==
    LET out == ZoomShape(shape, zoom_factor)
    IN  [shape |-> out,
         grid |-> [c \in CellsOf(out) |->
                     Bilinear(g, shape, ZoomCoord(c[1], shape[1], out[1]),
                                        ZoomCoord(c[2], shape[2], out[2]))]]

\* mutant: target_size is read as (height, width)
ZoomFactor_HeightFirst(shape, target_size) ==
    <<Rat(target_size[1], shape[1]), Rat(target_size[2], shape[2])>>

\* image_utils.resize_heightmap: target_size is (width, height),
\* zoom_factor = (target_size[1] / shape[0], target_size[0] / shape[1])
ZoomFactor(shape, target_size) ==
    <<Rat(target_size[2], shape[1]), Rat(target_size[1], shape[2])>>

resize_heightmap(heightmap, shape, target_size) ==
    zoom(heightmap, shape, ZoomFactor(shape, target_size))

\* dem_processor.py (and process_dem_with_gdal / _with_rasterio):
\* zoom_factor = (resolution / shape[0], resolution / shape[1])
ScriptResize(normalized, shape, res) ==
    zoom(normalized, shape, <<Rat(res, shape[1]), Rat(res, shape[2])>>)

\* backend/app.py: image.resize((resolution, resolution), Image.LANCZOS) of
\* the 8-bit image. Pillow returns a copy when the size asked for is the
\* size of the image; otherwise the samples are the Lanczos resampling of
\* `pre`, which is kept as that (see NoImage).
PilResize(image, shape, res) ==
    IF <<res, res>> = <<shape[2], shape[1]>>
    THEN [shape |-> shape, grid |-> image]
    ELSE [shape |-> <<res, res>>, grid |-> [pre |-> image]]

\* the shapes and sizes tried: a square and an oblong grid, each with its
\* own size among the targets
ResizeShapes == {<<2, 2>>, <<2, 3>>}
TargetSizes == {<<2, 2>>, <<3, 2>>, <<5, 3>>}
ResizeResolutions == {2, 3}

InitResize ==
    /\ pc = "grid"
    /\ \E shape \in ResizeShapes :
         \E g \in [CellsOf(shape) -> RawVals] :
            resized = [NoResize EXCEPT !.shape = shape, !.input = g]
    /\ HttpIdle
    /\ PipeIdle
    /\ QuantIdle
    /\ ConcIdle
    /\ HookIdle

\* image_utils.resize_heightmap(heightmap, target_size)
UtilsResize ==
    /\ pc = "grid"
    /\ pc' = "resized"
    /\ \E target_size \in TargetSizes :
         LET r == resize_heightmap(resized.input, resized.shape, target_size)
         IN  resized' = [resized EXCEPT !.by = "resize_heightmap",
                                        !.target = target_size,
                                        !.out_shape = r.shape,
                                        !.output = r.grid]
    /\ UNCHANGED <<httpVars, pipeVars, quantVars, concVars, hookVars>>

\* the resize step of dem_processor.py
ScriptZoom ==
    /\ pc = "grid"
    /\ pc' = "resized"
    /\ \E res \in ResizeResolutions :
         LET r == ScriptResize(resized.input, resized.shape, res)
         IN  resized' = [resized EXCEPT !.by = "dem_processor",
                                        !.target = <<res, res>>,
                                        !.out_shape = r.shape,
                                        !.output = r.grid]
    /\ UNCHANGED <<httpVars, pipeVars, quantVars, concVars, hookVars>>

\* the resize step of backend/app.py, on an image of 8-bit samples
AppResize ==
    /\ pc = "grid"
    /\ FiniteOn(resized.input, resized.shape)
    /\ pc' = "resized"
    /\ \E res \in ResizeResolutions :
         LET r == PilResize(resized.input, resized.shape, res)
         IN  resized' = [resized EXCEPT !.by = "app",
                                        !.target = <<res, res>>,
                                        !.out_shape = r.shape,
                                        !.output = r.grid]
    /\ UNCHANGED <<httpVars, pipeVars, quantVars, concVars, hookVars>>

NextResize == UtilsResize \/ ScriptZoom \/ AppResize

SpecResize == InitResize /\ [][NextResize]_vars

\* the size asked for, (width, height), is the size of the input grid
SameSize == resized.target = <<resized.shape[2], resized.shape[1]>>

\* C15: resampling an H x W grid (of finite samples) to the same size
\* H x W returns a grid of that shape that equals the input in every cell.
C15_ResampleIdentity ==
    (pc = "resized" /\ SameSize /\ FiniteOn(resized.input, resized.shape))
        => /\ resized.out_shape = resized.shape
           /\ resized.output = resized.input

\* an oblong grid that is not flat went through resize_heightmap at its own size
C15_Witness ==
    /\ pc = "resized"
    /\ resized.by = "resize_heightmap"
    /\ resized.shape = <<2, 3>>
    /\ SameSize
    /\ resized.input[<<0, 0>>] = R(0)
    /\ resized.input[<<1, 2>>] = R(2)
    /\ resized.output = resized.input

-----------------------------------------------------------------------------
(* SpecQuant: the quantizers applied to one sample                         *)

Samples == {Rat(n, SampleDen) : n \in 0..SampleDen}

InitQuant ==
    /\ pc = "sample"
    /\ sample \in Samples
    /\ quant = NoSample
    /\ HttpIdle
    /\ PipeIdle
    /\ ConcIdle
    /\ HookIdle
    /\ ResizeIdle

\* image_utils.save_heightmap_8bit
save_heightmap_8bit ==
    /\ pc = "sample"
    /\ pc' = "save_heightmap_8bit"
    /\ quant' = [NoSample EXCEPT !.out8 = ToUint8(sample)]
    /\ UNCHANGED <<sample, httpVars, pipeVars, concVars, hookVars, resizeVars>>

\* image_utils.save_heightmap_16bit, and the scripts' conversion
save_heightmap_16bit ==
    /\ pc = "sample"
    /\ pc' = "save_heightmap_16bit"
    /\ quant' = [NoSample EXCEPT !.out16 = ToUint16(sample)]
    /\ UNCHANGED <<sample, httpVars, pipeVars, concVars, hookVars, resizeVars>>

\* backend/app.py: the sample as 8 bits, then widened to 16 bits
AppQuantize ==
    /\ pc = "sample"
    /\ pc' = "app"
    /\ quant' = [NoSample EXCEPT !.out8 = ToUint8(sample),
                                 !.wide16 = Widen16(ToUint8(sample))]
    /\ UNCHANGED <<sample, httpVars, pipeVars, concVars, hookVars, resizeVars>>

\* the samples of a mode 'L' image
Levels8 == 0..255

\* backend/app.py with the resize in between: the sample as 8 bits, a
\* sample of the resized 8-bit image (Image.resize of a mode 'L' image gives
\* 8-bit samples, whatever its neighbours make of it), then widened
AppResizeWiden ==
    /\ pc = "sample"
    /\ pc' = "app_resized"
    /\ \E v \in Levels8 :
         quant' = [NoSample EXCEPT !.out8 = ToUint8(sample),
                                   !.resized8 = v,
                                   !.wide16 = Widen16(v)]
    /\ UNCHANGED <<sample, httpVars, pipeVars, concVars, hookVars, resizeVars>>

NextQuant == save_heightmap_8bit \/ save_heightmap_16bit \/ AppQuantize \/ AppResizeWiden

SpecQuant == InitQuant /\ [][NextQuant]_vars

\* C6: the 8-bit sample is round(x * 255) and the 16-bit sample is
\* round(x * 65535), rounding to nearest.
C6_QuantizerRoundsToNearest ==
    /\ pc \in {"save_heightmap_8bit", "app"}
           => quant.out8 = RoundNearest(RMul(sample, R(255)))
    /\ pc = "save_heightmap_16bit"
           => quant.out16 = RoundNearest(RMul(sample, R(65535)))

\* i is x * scale cut to an integer: x * scale - 1 < i <= x * scale
CutOf(i, x, scale) ==
    /\ RLe(R(i), RMul(x, R(scale)))
    /\ RLt(RMul(x, R(scale)), R(i + 1))

\* C7: for every sample in [0,1] the 8-bit output is in [0,255] and the
\* 16-bit output in [0,65535], neither wrapped around; 0.0 gives 0 and 1.0
\* gives 255 or 65535, also through app.py's 8-bit-then-16-bit conversion.
C7_QuantizationBounded ==
    /\ pc \in {"save_heightmap_8bit", "app"}
           => /\ quant.out8 \in 0..255
              /\ CutOf(quant.out8, sample, 255)
              /\ sample = R(0) => quant.out8 = 0
              /\ sample = R(1) => quant.out8 = 255
    /\ pc = "save_heightmap_16bit"
           => /\ quant.out16 \in 0..65535
              /\ CutOf(quant.out16, sample, 65535)
              /\ sample = R(0) => quant.out16 = 0
              /\ sample = R(1) => quant.out16 = 65535
    /\ pc = "app"
           => /\ quant.wide16 \in 0..65535
              /\ CutOf(quant.wide16, Rat(quant.out8, 255), 65535)
              /\ sample = R(0) => quant.wide16 = 0
              /\ sample = R(1) => quant.wide16 = 65535

\* the 16-bit levels app.py can write
Levels16 == {(v * 65535) \div 255 : v \in Levels8}

C7_Witness ==
    /\ pc = "app"
    /\ sample = R(1)
    /\ quant.out8 = 255
    /\ quant.wide16 = 65535

====
